---- MODULE Spec2Model ----
(***************************************************************************)
(* WordPractice: the persisted statistics ledger and high-score            *)
(* leaderboard (class GameDataManager) and the application's screen and    *)
(* navigation handlers (app.js) as a state machine.                        *)
(*                                                                         *)
(* The persisted document lives in localStorage under one key.  Every      *)
(* operation of the manager starts with initData(), works on the parsed    *)
(* document and, when it mutates, writes the whole document back.          *)
(* Clock readings (Date.now(), milliseconds) are an input of every         *)
(* operation: two consecutive operations may read the same millisecond.    *)
(***************************************************************************)
EXTENDS Integers, Sequences, FiniteSets, Bags, TLC

VARIABLES
    localStorage,   \* the browser store: a function from keys to documents
    now,            \* the clock reading taken by the last operation (ms)
    ret,            \* the last operation, its arguments and what it returned
    pushed,         \* history: entries pushed by addHighScore since the last reset
    app             \* the application's module-level variables, as a record

vars == <<localStorage, now, ret, pushed, app>>

----------------------------------------------------------------------------
(* Bounds of the model                                                     *)

MaxClock == 1          \* clock readings range over T0 .. T0 + MaxClock
MaxPushed == 12        \* addHighScore calls explored after a reset
MaxSessions == 3       \* length of the session log explored in SpecLedger
MaxCalls == 2          \* saveSession and addHighScore calls explored in SpecManager
MaxDuration == 2       \* durations of recorded sessions range over 0 .. MaxDuration
MaxAppClock == 1000    \* events that set a timer are explored up to T0 + MaxAppClock
MaxRuns == 2           \* completed runs recorded by the application
MaxInputCalls == 1     \* saveSession calls explored in SpecSessionInputs
MaxLate == 300         \* ms a setTimeout callback may run after the time it was set for
MaxLateTimers == 1     \* callbacks that run late

(* Program constants                                                       *)

T0 == 1000             \* the clock reading when the page is opened
TopTenSize == 10       \* capacity of highScores.topTen
InitialsMax == 3       \* initials are cut to this many characters
null == -1             \* JavaScript null in stats.bestTime (durations are >= 0)
undefined == -2        \* JavaScript undefined as the value of a numeric argument

storageKey == "gameAppData"
gameId == "word-practice"
gameName == "Word Practice"
developer == "Videogame Workshop LLC"

----------------------------------------------------------------------------
(* Helpers on JavaScript objects, modelled as functions on their keys      *)

Has(obj, key) == key \in DOMAIN obj

EmptyObject == [k \in {} |-> 0]

\* obj with obj[key] = val (key added when absent)
Put(obj, key, val) == [k \in (DOMAIN obj) \cup {key} |-> IF k = key THEN val ELSE obj[k]]

Last(s) == s[Len(s)]
Front(s) == SubSeq(s, 1, Len(s) - 1)

----------------------------------------------------------------------------
(* initData                                                                *)

NewData(t) ==
    [ version      |-> "1.0",
      developer    |-> developer,
      user         |-> [userId |-> t, createdAt |-> t, preferences |-> EmptyObject],
      games        |-> EmptyObject,
      achievements |-> <<>> ]

\* variant: the user id is generated again on every load
BackfillFresh(data, t) ==
    LET d3 == IF Has(data, "user") THEN data ELSE Put(data, "user", EmptyObject)
        u3 == Put(Put(Put(d3.user, "userId", t), "createdAt", t),
                  "preferences", EmptyObject)
        d4 == Put(Put(Put(d3, "user", u3), "version", "1.0"), "developer", developer)
        d5 == IF Has(d4, "games") THEN d4 ELSE Put(d4, "games", EmptyObject)
    IN  IF Has(d5, "achievements") THEN d5 ELSE Put(d5, "achievements", <<>>)

\* the block "Ensure all required fields exist with defaults"
Backfill(data, t) ==
    LET d1 == IF Has(data, "version") THEN data ELSE Put(data, "version", "1.0")
        d2 == IF Has(d1, "developer") THEN d1 ELSE Put(d1, "developer", developer)
        d3 == IF Has(d2, "user") THEN d2 ELSE Put(d2, "user", EmptyObject)
        u1 == IF Has(d3.user, "userId") THEN d3.user ELSE Put(d3.user, "userId", t)
        u2 == IF Has(u1, "createdAt") THEN u1 ELSE Put(u1, "createdAt", t)
        u3 == IF Has(u2, "preferences") THEN u2 ELSE Put(u2, "preferences", EmptyObject)
        d4 == Put(d3, "user", u3)
        d5 == IF Has(d4, "games") THEN d4 ELSE Put(d4, "games", EmptyObject)
    IN  IF Has(d5, "achievements") THEN d5 ELSE Put(d5, "achievements", <<>>)

\* data.games[this.gameId]
HasGame(data) == Has(data.games, gameId)

\* JSON.stringify leaves out a property whose value is undefined
WithoutUndefined(entry) ==
    IF Has(entry, "wordsCount") /\ entry.wordsCount = undefined
    THEN [k \in (DOMAIN entry) \ {"wordsCount"} |-> entry[k]]
    ELSE entry

\* some entry of the list has a property that JSON.stringify leaves out
HasUndefined(scores) ==
    \E i \in 1..Len(scores) :
        Has(scores[i], "wordsCount") /\ scores[i].wordsCount = undefined

\* the list as JSON.stringify writes it
StringifyScores(scores) ==
    IF HasUndefined(scores)
    THEN [i \in 1..Len(scores) |-> WithoutUndefined(scores[i])]
    ELSE scores

\* the value a text made by JSON.stringify(data) stands for: the document
\* without the properties of score entries that are undefined
ToJSON(data) ==
    IF /\ Has(data, "games") /\ HasGame(data)
       /\ Has(data.games[gameId], "highScores")
       /\ \/ HasUndefined(data.games[gameId].highScores.topTen)
          \/ HasUndefined(data.games[gameId].highScores.historical)
    THEN [data EXCEPT !.games[gameId].highScores =
              [ topTen     |-> StringifyScores(@.topTen),
                historical |-> StringifyScores(@.historical) ]]
    ELSE data

\* a stored string: JSON text of a value, or text that is no JSON
JSONstringify(data) == [kind |-> "json", value |-> ToJSON(data)]

Garbage == [kind |-> "garbage"]

\* JSON.parse succeeds on the text
Parses(text) == text.kind = "json"

JSONparse(text) == text.value

\* initData found a document: getItem returned a string and JSON.parse did not throw
Readable(ls) == Has(ls, storageKey) /\ Parses(ls[storageKey])

\* localStorage.setItem(this.storageKey, JSON.stringify(data))
SetItem(ls, data) == Put(ls, storageKey, JSONstringify(data))

\* the document initData returns
InitData(ls, t) ==
    Backfill(IF Readable(ls) THEN JSONparse(ls[storageKey]) ELSE NewData(t), t)

\* variant: initData does not write the document it creates
InitDataStoreKeep(ls, t) == ls

\* the store initData leaves behind: a fresh document is written when none was read
InitDataStore(ls, t) ==
    IF Readable(ls) THEN ls ELSE SetItem(ls, NewData(t))

----------------------------------------------------------------------------
(* Read access to the stored game record, as the getters do it             *)

\* data.games[this.gameId]?.highScores?.topTen || []
TopTenOf(data) ==
    IF HasGame(data) /\ Has(data.games[gameId], "highScores")
    THEN data.games[gameId].highScores.topTen ELSE <<>>

\* data.games[this.gameId]?.highScores?.historical || []
HistoricalOf(data) ==
    IF HasGame(data) /\ Has(data.games[gameId], "highScores")
    THEN data.games[gameId].highScores.historical ELSE <<>>

getHighScores(data) == [topTen |-> TopTenOf(data), historical |-> HistoricalOf(data)]

\* a || fallback, on numbers (0 and null are falsy)
OrElse(a, fallback) == IF a = 0 \/ a = null THEN fallback ELSE a

\* variant: a missing best time is reported as 0
getStatsZero(data) ==
    IF HasGame(data) /\ Has(data.games[gameId], "stats")
    THEN data.games[gameId].stats
    ELSE [bestTime |-> 0, averageTime |-> 0, totalCompletions |-> 0,
          totalWordsCompleted |-> 0]

\* bestTime || null, averageTime || 0, ... on data.games[this.gameId]?.stats || {}
getStats(data) ==
    IF HasGame(data) /\ Has(data.games[gameId], "stats")
    THEN LET gameStats == data.games[gameId].stats
         IN  [ bestTime            |-> OrElse(gameStats.bestTime, null),
               averageTime         |-> OrElse(gameStats.averageTime, 0),
               totalCompletions    |-> OrElse(gameStats.totalCompletions, 0),
               totalWordsCompleted |-> OrElse(gameStats.totalWordsCompleted, 0) ]
    ELSE [bestTime |-> null, averageTime |-> 0, totalCompletions |-> 0,
          totalWordsCompleted |-> 0]

\* variant: a tie with the last entry qualifies
isTopTenScoreOrEqual(data, time) ==
    LET scores == TopTenOf(data)
    IN  IF Len(scores) < TopTenSize THEN TRUE
        ELSE time <= Last(scores).time

\* topTen.length < 10, or time < worstScore.time
isTopTenScore(data, time) ==
    LET scores == TopTenOf(data)
    IN  IF Len(scores) < TopTenSize THEN TRUE
        ELSE time < Last(scores).time

----------------------------------------------------------------------------
(* saveSession                                                             *)

\* !x for a number that may be absent: undefined and 0 are falsy
Falsy(obj, key) == ~Has(obj, key) \/ obj[key] = 0

\* variant: a session without a completed flag counts as completed
NormalizeSessionCompleted(sessionData, t) ==
    [ startTime      |-> IF Falsy(sessionData, "startTime") THEN t
                         ELSE sessionData.startTime,
      duration       |-> IF ~Has(sessionData, "duration") THEN 0
                         ELSE sessionData.duration,
      completed      |-> IF ~Has(sessionData, "completed") THEN TRUE
                         ELSE sessionData.completed,
      wordsCount     |-> IF Falsy(sessionData, "wordsCount") THEN 0
                         ELSE sessionData.wordsCount,
      shuffled       |-> IF ~Has(sessionData, "shuffled") THEN FALSE
                         ELSE sessionData.shuffled,
      backButtonUses |-> IF Falsy(sessionData, "backButtonUses") THEN 0
                         ELSE sessionData.backButtonUses ]

\* the block "Ensure sessionData has defaults"
NormalizeSession(sessionData, t) ==
    [ startTime      |-> IF Falsy(sessionData, "startTime") THEN t
                         ELSE sessionData.startTime,
      duration       |-> IF ~Has(sessionData, "duration") THEN 0
                         ELSE sessionData.duration,
      completed      |-> IF ~Has(sessionData, "completed") THEN FALSE
                         ELSE sessionData.completed,
      wordsCount     |-> IF Falsy(sessionData, "wordsCount") THEN 0
                         ELSE sessionData.wordsCount,
      shuffled       |-> IF ~Has(sessionData, "shuffled") THEN FALSE
                         ELSE sessionData.shuffled,
      backButtonUses |-> IF Falsy(sessionData, "backButtonUses") THEN 0
                         ELSE sessionData.backButtonUses ]

NewGame(t) ==
    [ gameInfo   |-> [ name |-> gameName, developer |-> developer, version |-> "1.0",
                       firstPlayed |-> t, totalSessions |-> 0 ],
      stats      |-> [ bestTime |-> null, averageTime |-> 0, totalCompletions |-> 0,
                       totalWordsCompleted |-> 0 ],
      highScores |-> [ topTen |-> <<>>, historical |-> <<>> ],
      sessions   |-> <<>>,
      settings   |-> EmptyObject ]

\* s.completed && s.duration > 0
Counts(s) == s.completed /\ s.duration > 0

RECURSIVE SumDuration(_)
SumDuration(ss) ==
    IF ss = <<>> THEN 0 ELSE SumDuration(Front(ss)) + Last(ss).duration

\* Math.round(sum / n) for sum >= 0, n > 0: halves round up
MathRound(sum, n) == (2 * sum + n) \div (2 * n)

\* variant: the latest duration always becomes the best time
BestTimeLatest(bestTime, duration) == duration

\* if (stats.bestTime === null || session.duration < stats.bestTime)
NewBestTime(bestTime, duration) ==
    IF bestTime = null \/ duration < bestTime THEN duration ELSE bestTime

\* variant: a running average of the old average and the new duration
AverageTimeIncremental(averageTime, allSessions) ==
    IF averageTime = 0 THEN Last(allSessions).duration
    ELSE MathRound(averageTime + Last(allSessions).duration, 2)

\* "Calculate average time from completed sessions only": the whole log is
\* filtered and averaged again
AverageTime(averageTime, allSessions) ==
    LET completedSessions == SelectSeq(allSessions, Counts)
    IN  IF Len(completedSessions) > 0
        THEN MathRound(SumDuration(completedSessions), Len(completedSessions))
        ELSE averageTime

\* variant: the statistics are updated for every session
UpdateStatsAlways(gameStats, session, allSessions) ==
    [ gameStats EXCEPT
        !.totalCompletions    = @ + 1,
        !.totalWordsCompleted = @ + session.wordsCount,
        !.bestTime            = NewBestTime(@, session.duration),
        !.averageTime         = AverageTime(@, allSessions) ]

\* the block "Update stats only if completed with valid duration";
\* allSessions is the log with the new session already pushed
UpdateStats(gameStats, session, allSessions) ==
    IF session.completed /\ session.duration > 0
    THEN [ gameStats EXCEPT
             !.totalCompletions    = @ + 1,
             !.totalWordsCompleted = @ + session.wordsCount,
             !.bestTime            = NewBestTime(@, session.duration),
             !.averageTime         = AverageTime(@, allSessions) ]
    ELSE gameStats

\* variant: the log keeps the latest session only
PushSessionOnly(allSessions, sessionWithId) == <<sessionWithId>>

\* data.games[this.gameId].sessions.push(sessionWithId)
PushSession(allSessions, sessionWithId) == Append(allSessions, sessionWithId)

\* the game record saveSession works on: created when absent, highScores added
\* to a record that lacks it
EnsureGame(data, t) ==
    LET g0 == IF HasGame(data) THEN data.games[gameId] ELSE NewGame(t)
    IN  IF Has(g0, "highScores") THEN g0
        ELSE Put(g0, "highScores", [topTen |-> <<>>, historical |-> <<>>])

\* variant: the id is taken from the start of the run
SessionWithStartId(session, t) ==
    [ sessionId      |-> session.startTime,
      endTime        |-> t,
      startTime      |-> session.startTime,
      duration       |-> session.duration,
      completed      |-> session.completed,
      wordsCount     |-> session.wordsCount,
      shuffled       |-> session.shuffled,
      backButtonUses |-> session.backButtonUses ]
\* the session pushed to the log
SessionWithId(session, t) ==
    [ sessionId      |-> t,
      endTime        |-> t,
      startTime      |-> session.startTime,
      duration       |-> session.duration,
      completed      |-> session.completed,
      wordsCount     |-> session.wordsCount,
      shuffled       |-> session.shuffled,
      backButtonUses |-> session.backButtonUses ]

\* saveSession throws a TypeError on a game record that lacks sessions
\* (sessions.push), gameInfo (gameInfo.totalSessions++) or, for a session that
\* counts, stats (stats.totalCompletions++)
saveSessionThrows(data, sessionData, t) ==
    LET session == NormalizeSession(sessionData, t)
        g0      == EnsureGame(data, t)
    IN  \/ ~Has(g0, "sessions")
        \/ ~Has(g0, "gameInfo")
        \/ (session.completed /\ session.duration > 0 /\ ~Has(g0, "stats"))

\* the document saveSession writes (when it does not throw)
saveSession(data, sessionData, t) ==
    LET session   == NormalizeSession(sessionData, t)
        g0        == EnsureGame(data, t)
        pushedLog == PushSession(g0.sessions, SessionWithId(session, t))
        gameInfo  == Put([g0.gameInfo EXCEPT !.totalSessions = @ + 1], "lastPlayed", t)
        g1        == [ g0 EXCEPT !.sessions = pushedLog,
                                 !.gameInfo = gameInfo ]
        g2        == IF Has(g1, "stats")
                     THEN [g1 EXCEPT !.stats = UpdateStats(g0.stats, session, pushedLog)]
                     ELSE g1
    IN  Put(data, "games", Put(data.games, gameId, g2))

----------------------------------------------------------------------------
(* addHighScore                                                            *)

ToUpperCase(c) ==
    CASE c = "a" -> "A" [] c = "b" -> "B" [] c = "c" -> "C" [] c = "d" -> "D"
      [] OTHER -> c

\* initials.toUpperCase().substring(0, 3), on a sequence of characters
CutInitials(initials) ==
    LET n == IF Len(initials) < InitialsMax THEN Len(initials) ELSE InitialsMax
    IN  [i \in 1..n |-> ToUpperCase(initials[i])]

ScoreEntry(initials, time, wordsCount, t) ==
    [ initials   |-> CutInitials(initials),
      time       |-> time,
      date       |-> t,
      wordsCount |-> wordsCount,
      timestamp  |-> t ]

\* variant: e goes in front of the elements that compare equal
InsertSortedBefore(s, e) ==
    LET k == Cardinality({i \in 1..Len(s) : s[i].time < e.time})
    IN  SubSeq(s, 1, k) \o <<e>> \o SubSeq(s, k + 1, Len(s))

\* topTen.sort((a, b) => a.time - b.time): Array.prototype.sort is stable;
\* InsertSorted puts e behind every element that does not compare greater
InsertSorted(s, e) ==
    LET k == Cardinality({i \in 1..Len(s) : s[i].time <= e.time})
    IN  SubSeq(s, 1, k) \o <<e>> \o SubSeq(s, k + 1, Len(s))

\* variant: the array is left in push order
SortByTimeNot(s) == s

RECURSIVE SortByTime(_)
SortByTime(s) ==
    IF s = <<>> THEN <<>> ELSE InsertSorted(SortByTime(Front(s)), Last(s))

\* variant: no look-up in historical
AlreadyHistoricalNever(entries, removedScore) == FALSE

\* highScores.historical.find(h => h.timestamp === removedScore.timestamp)
AlreadyHistorical(entries, removedScore) ==
    \E i \in 1..Len(entries) : entries[i].timestamp = removedScore.timestamp

\* removedScore.wasInTopTen, undefined on an entry that was never evicted
WasInTopTen(score) == Has(score, "wasInTopTen") /\ score.wasInTopTen

\* the loop "while (highScores.topTen.length > 10)"
RECURSIVE MoveExtras(_, _)
MoveExtras(highScores, t) ==
    IF Len(highScores.topTen) > TopTenSize
    THEN LET removedScore == Last(highScores.topTen)
             kept         == Front(highScores.topTen)
             moved        == Put(Put(removedScore, "wasInTopTen", TRUE),
                                 "removedFromTopTen", t)
         IN  MoveExtras(
                 [ topTen     |-> kept,
                   historical |->
                       IF ~WasInTopTen(removedScore)
                          /\ ~AlreadyHistorical(highScores.historical, removedScore)
                       THEN Append(highScores.historical, moved)
                       ELSE highScores.historical ], t)
    ELSE highScores

\* topTen.findIndex(score => score.timestamp === scoreEntry.timestamp) + 1
FindIndex(scores, scoreEntry) ==
    LET hits == {i \in 1..Len(scores) : scores[i].timestamp = scoreEntry.timestamp}
    IN  IF hits = {} THEN -1
        ELSE (CHOOSE i \in hits : \A j \in hits : i <= j) - 1

\* highScores after push, sort and the eviction loop
AddToHighScores(highScores, scoreEntry, t) ==
    MoveExtras([ highScores EXCEPT
                   !.topTen = SortByTime(Append(highScores.topTen, scoreEntry)) ], t)

\* data.games[this.gameId].highScores throws a TypeError without a game record,
\* highScores.topTen.push on a game record without highScores
addHighScoreThrows(data) ==
    ~HasGame(data) \/ ~Has(data.games[gameId], "highScores")

\* the document addHighScore writes (when it does not throw)
addHighScore(data, scoreEntry, t) ==
    LET g0 == data.games[gameId]
        g1 == [g0 EXCEPT !.highScores = AddToHighScores(g0.highScores, scoreEntry, t)]
    IN  Put(data, "games", Put(data.games, gameId, g1))

----------------------------------------------------------------------------
(* The application (app.js).  Its module-level variables are the fields of *)
(* the record app; timers holds the setTimeout callbacks not yet run, as a *)
(* bag: two calls of setTimeout with equal arguments are two callbacks.    *)
(* Three fields are history: advances counts the accepted handleNext calls,*)
(* completions the completions since the last start and lateTimers the     *)
(* callbacks that ran after the time they were set for.                    *)

BUTTON_COOLDOWN == 500        \* ms between two accepted presses of a button
SubmitDelay == 200            \* ms from submitHighScore to its celebration
TestDelay == 100              \* ms from Test Celebration to its celebration
CelebrationDuration == 4000   \* ms a celebration is shown
DefaultBestTime == 300        \* race reference times without scores
DefaultRecentTime == 600

\* words after loadWords(): the non-empty lines of words.csv
LoadedWords == <<"cat", "dog">>

\* pendingScore = null
NoPendingScore == EmptyObject

NewRaceData ==
    [bestTime |-> DefaultBestTime, recentTime |-> DefaultRecentTime,
     currentStartTime |-> null, totalWords |-> 0]

\* The numbers the race computes are quotients of non-negative integers; a
\* number is kept as a fraction in lowest terms, 1/0 being Infinity and 0/0
\* NaN (rounding of the floating-point quotient is not modelled).
NaN == [num |-> 0, den |-> 0]
Zero == [num |-> 0, den |-> 1]
One == [num |-> 1, den |-> 1]
RECURSIVE Gcd(_, _)
Gcd(a, b) == IF b = 0 THEN a ELSE Gcd(b, a % b)
\* n / d in JavaScript, for n >= 0 and d >= 0
Divide(n, d) ==
    IF Gcd(n, d) = 0 THEN NaN
    ELSE [num |-> n \div Gcd(n, d), den |-> d \div Gcd(n, d)]
\* Math.min(x, 1): NaN stays NaN
MathMinOne(x) == IF x = NaN THEN NaN ELSE IF x.num > x.den THEN One ELSE x

\* the racers at the start line: x = raceTrack.startX
StartLine == [best |-> Zero, current |-> Zero, recent |-> Zero]

\* variant: the player's racer moves with the share of the reference time
updateRacePositionsByTime(raceData, currentWordIndex, currentScreen, t, racers) ==
    IF currentScreen # "race" \/ raceData.currentStartTime = null THEN racers
    ELSE [ current |-> MathMinOne(Divide(t - raceData.currentStartTime,
                                          1000 * raceData.bestTime)),
           best    |-> MathMinOne(Divide(t - raceData.currentStartTime,
                                          1000 * raceData.bestTime)),
           recent  |-> MathMinOne(Divide(t - raceData.currentStartTime,
                                          1000 * raceData.recentTime)) ]
\* updateRacePositions(currentWordIndex, currentScreen) at clock reading t:
\* the progress of each racer, its x being startX + progress * trackDistance
updateRacePositions(raceData, currentWordIndex, currentScreen, t, racers) ==
    IF currentScreen # "race" \/ raceData.currentStartTime = null THEN racers
    ELSE [ current |-> Divide(currentWordIndex, raceData.totalWords),
           best    |-> MathMinOne(Divide(t - raceData.currentStartTime,
                                          1000 * raceData.bestTime)),
           recent  |-> MathMinOne(Divide(t - raceData.currentStartTime,
                                          1000 * raceData.recentTime)) ]

\* the module-level state after init()
NewApp(loaded) ==
    [ words            |-> loaded,
      currentWordIndex |-> 0,
      currentScreen    |-> "title",
      pendingScore     |-> NoPendingScore,
      lastNextTime     |-> 0,
      lastBackTime     |-> 0,
      sessionStartTime |-> null,
      backButtonUses   |-> 0,
      currentInitials  |-> <<>>,
      raceData         |-> NewRaceData,
      racers           |-> StartLine,
      timers           |-> EmptyBag,
      lateTimers       |-> 0,
      advances         |-> 0,
      completions      |-> 0 ]

\* updateWord(): on the race screen the racers move
updateWord(a, t) ==
    [a EXCEPT !.racers = updateRacePositions(a.raceData, a.currentWordIndex,
                                             a.currentScreen, t, @)]

\* showScreen(screen): the screen shown; showing highScoreView reads the
\* scores, and that read writes the default document to an unreadable store
ShowScreen(a, screen) == [a EXCEPT !.currentScreen = screen]
ShowScreenStore(ls, screen, t) ==
    IF screen = "highScoreView" THEN InitDataStore(ls, t) ELSE ls

\* shuffleWords(): Fisher-Yates, picks[i] being the random j of round i
\* variant: the second half of the swap is lost
SwapOverwrite(ws, i, j) == [ws EXCEPT ![i] = ws[j]]
\* [words[i], words[j]] = [words[j], words[i]]
Swap(ws, i, j) == [ws EXCEPT ![i] = ws[j], ![j] = ws[i]]
RECURSIVE ShuffleFrom(_, _, _)
ShuffleFrom(ws, i, picks) ==
    IF i < 1 THEN ws
    ELSE ShuffleFrom(Swap(ws, i + 1, picks[i] + 1), i - 1, picks)
shuffleWords(ws, picks) == ShuffleFrom(ws, Len(ws) - 1, picks)
Picks(ws) ==
    {picks \in [1..(Len(ws) - 1) -> 0..(Len(ws) - 1)] :
        \A i \in 1..(Len(ws) - 1) : picks[i] <= i}

\* what onStart, onRace and onShuffleRestart have in common
StartRun(a, picks, t) ==
    [a EXCEPT !.words = shuffleWords(@, picks),
              !.currentWordIndex = 0,
              !.sessionStartTime = t,
              !.backButtonUses = 0,
              !.advances = 0,
              !.completions = 0]

\* variant: the two reference times are taken from the wrong ends
initRaceModeSwapped(raceData, ws, scores, t) ==
    [ totalWords       |-> Len(ws),
      currentStartTime |-> t,
      bestTime         |-> IF Len(scores.topTen) > 0 THEN Last(scores.topTen).time
                           ELSE DefaultBestTime,
      recentTime       |-> IF Len(scores.topTen) > 0 THEN scores.topTen[1].time
                           ELSE DefaultRecentTime ]
\* initRaceMode(words, gameData): the race data it sets
initRaceMode(raceData, ws, scores, t) ==
    [ totalWords       |-> Len(ws),
      currentStartTime |-> t,
      bestTime         |-> IF Len(scores.topTen) > 0 THEN scores.topTen[1].time
                           ELSE DefaultBestTime,
      recentTime       |-> IF Len(scores.topTen) > 0 THEN Last(scores.topTen).time
                           ELSE DefaultRecentTime ]

\* variant: the cooldown ends one millisecond early
InCooldownShort(currentTime, lastTime) == currentTime - lastTime < BUTTON_COOLDOWN - 1
\* the cooldown test of handleNext and handleBack
InCooldown(currentTime, lastTime) == currentTime - lastTime < BUTTON_COOLDOWN

\* setTimeout(callback, delay): one more callback is pending
setTimeout(timers, timer) == timers (+) SetToBag({timer})

\* a pending callback is taken off the timer list to run
TakeTimer(timers, timer) == timers (-) SetToBag({timer})

\* the callbacks that are pending, each once
PendingTimers(a) == BagToSet(a.timers)

\* the timer a celebration sets for its end
CelebrationEnd(timer, t) ==
    [timer EXCEPT !.at = t + CelebrationDuration, !.kind = "celebrationEnd"]

\* variant: the fraction of a second is cut off
DurationSecondsFloor(a, t) == (t - a.sessionStartTime) \div 1000
\* Math.round((endTime - startTime) / 1000)
DurationSeconds(a, t) == MathRound(t - a.sessionStartTime, 1000)

\* variant: a race always ends on the end screen
handleRaceCompletionEnd(a) ==
    [shouldShowEnd |-> TRUE, continueWithPracticeCompletion |-> FALSE]
\* handleRaceCompletion(sessionStartTime, ...)
handleRaceCompletion(a) ==
    [shouldShowEnd |-> a.sessionStartTime = null,
     continueWithPracticeCompletion |-> a.sessionStartTime # null]

\* variant: the words shown are counted instead of the words of the list
CompletedSessionShown(a, duration) ==
    [ startTime      |-> a.sessionStartTime,
      duration       |-> duration,
      completed      |-> TRUE,
      wordsCount     |-> a.currentWordIndex + 1,
      shuffled       |-> TRUE,
      backButtonUses |-> a.backButtonUses ]
\* the session handlePracticeCompletion hands to saveSession
CompletedSession(a, duration) ==
    [ startTime      |-> a.sessionStartTime,
      duration       |-> duration,
      completed      |-> TRUE,
      wordsCount     |-> Len(a.words),
      shuffled       |-> TRUE,
      backButtonUses |-> a.backButtonUses ]

\* variant: only the first completion is a new best
IsNewBestFirstOnly(currentStats, duration) == currentStats.bestTime = null
\* isFirstCompletion || duration < currentStats.bestTime
IsNewBest(currentStats, duration) ==
    currentStats.bestTime = null \/ duration < currentStats.bestTime

\* variant: the pending score counts the words by the index of the last one
AfterSaveByIndex(a, saved, isNewBest, duration, t) ==
    IF isTopTenScore(InitData(saved, t), duration)
    THEN [ app |-> ShowScreen(
               [a EXCEPT !.pendingScore = [ time       |-> duration,
                                            wordsCount |-> a.currentWordIndex,
                                            isNewBest  |-> isNewBest ],
                         !.currentInitials = <<>>],
               "highScoreInput"),
           ls |-> saved, recorded |-> TRUE ]
    ELSE IF isNewBest
    THEN [ app |-> [a EXCEPT !.timers = setTimeout(@,
                       [at |-> t + CelebrationDuration,
                         kind |-> "celebrationEnd",
                         onComplete |-> "highScoreView"])],
           ls |-> saved, recorded |-> TRUE ]
    ELSE [ app |-> ShowScreen(a, "highScoreView"), ls |-> saved, recorded |-> TRUE ]

\* handlePracticeCompletion after saveSession: the screen that follows
AfterSave(a, saved, isNewBest, duration, t) ==
    IF isTopTenScore(InitData(saved, t), duration)
    THEN [ app |-> ShowScreen(
               [a EXCEPT !.pendingScore = [ time       |-> duration,
                                            wordsCount |-> Len(a.words),
                                            isNewBest  |-> isNewBest ],
                         !.currentInitials = <<>>],
               "highScoreInput"),
           ls |-> saved, recorded |-> TRUE ]
    ELSE IF isNewBest
    THEN [ app |-> [a EXCEPT !.timers = setTimeout(@,
                       [at |-> t + CelebrationDuration,
                         kind |-> "celebrationEnd",
                         onComplete |-> "highScoreView"])],
           ls |-> saved, recorded |-> TRUE ]
    ELSE [ app |-> ShowScreen(a, "highScoreView"), ls |-> saved, recorded |-> TRUE ]

\* handlePracticeCompletion from gameData.saveSession on; loaded is the
\* store after the getStats call, data the document saveSession loads
SaveCompletion(a, loaded, data, isNewBest, duration, t) ==
    IF saveSessionThrows(data, CompletedSession(a, duration), t)
    THEN [app |-> a, ls |-> loaded, recorded |-> FALSE]
    ELSE AfterSave(a,
                   SetItem(loaded, saveSession(data, CompletedSession(a, duration), t)),
                   isNewBest, duration, t)

\* handlePracticeCompletion(): the application state and the store after it
handlePracticeCompletion(a, ls, t) ==
    IF a.sessionStartTime = null
    THEN [app |-> ShowScreen(a, "end"), ls |-> ls, recorded |-> FALSE]
    ELSE SaveCompletion(a, InitDataStore(ls, t), InitData(ls, t),
                        IsNewBest(getStats(InitData(ls, t)), DurationSeconds(a, t)),
                        DurationSeconds(a, t), t)

\* the outcome of an accepted press
Accepted(out, completion) ==
    [app |-> out.app, ls |-> out.ls, recorded |-> out.recorded,
     accepted |-> TRUE, completion |-> completion]

\* handleNext after the cooldown test: a is the state with lastNextTime set
AcceptedNext(a, ls, t) ==
    IF a.currentWordIndex < Len(a.words) - 1
    THEN [app |-> updateWord([a EXCEPT !.currentWordIndex = @ + 1], t), ls |-> ls,
          accepted |-> TRUE, completion |-> FALSE, recorded |-> FALSE]
    ELSE IF a.currentScreen = "race" /\ handleRaceCompletion(a).shouldShowEnd
    THEN [app |-> ShowScreen([a EXCEPT !.completions = @ + 1], "end"), ls |-> ls,
          accepted |-> TRUE, completion |-> TRUE, recorded |-> FALSE]
    ELSE Accepted(handlePracticeCompletion([a EXCEPT !.completions = @ + 1], ls, t),
                  TRUE)

\* handleNext(): the outcome of a press read at clock reading t
handleNext(a, ls, t) ==
    IF InCooldown(t, a.lastNextTime)
    THEN [app |-> a, ls |-> ls, accepted |-> FALSE, completion |-> FALSE,
          recorded |-> FALSE]
    ELSE AcceptedNext([a EXCEPT !.lastNextTime = t, !.advances = @ + 1], ls, t)

\* variant: one cooldown for both buttons
BackTimerShared(a) ==
    IF a.lastNextTime > a.lastBackTime THEN a.lastNextTime ELSE a.lastBackTime
\* the time handleBack compares the press with
BackTimer(a) == a.lastBackTime

\* variant: the first word is never shown again
BackIndexClamped(index) == IF index > 1 THEN index - 1 ELSE index
\* the word index after an accepted handleBack
BackIndex(index) == IF index > 0 THEN index - 1 ELSE index

\* handleBack(): the outcome of a press read at clock reading t
handleBack(a, t) ==
    IF InCooldown(t, BackTimer(a))
    THEN [app |-> a, accepted |-> FALSE]
    ELSE
    LET a1 == [a EXCEPT !.lastBackTime = t]
    IN  [ app |-> IF a1.currentWordIndex > 0
                  THEN updateWord([a1 EXCEPT !.currentWordIndex = BackIndex(@),
                                             !.backButtonUses = @ + 1], t)
                  ELSE a1,
          accepted |-> TRUE ]

\* a letter key on the highScoreInput screen; Backspace
TypeLetter(a, c) ==
    IF Len(a.currentInitials) < InitialsMax
    THEN [a EXCEPT !.currentInitials = Append(@, ToUpperCase(c))]
    ELSE a
TypeBackspace(a) ==
    IF Len(a.currentInitials) > 0
    THEN [a EXCEPT !.currentInitials = Front(@)]
    ELSE a

\* variant: empty initials are entered as they are
InitialsOrEmpty(a) == a.currentInitials
\* currentInitials || 'AAA'
InitialsOrDefault(a) ==
    IF a.currentInitials = <<>> THEN <<"A", "A", "A">> ELSE a.currentInitials

\* submitHighScore() from gameData.addHighScore on
SubmitPending(a, ls, data, t) ==
    IF addHighScoreThrows(data)
    THEN [app |-> a, ls |-> InitDataStore(ls, t), added |-> FALSE]
    ELSE [ app |-> ShowScreen(
               [a EXCEPT !.pendingScore = NoPendingScore,
                         !.currentInitials = <<>>,
                         !.timers = setTimeout(@,
                             [at |-> t + SubmitDelay, kind |-> "celebrate",
                               onComplete |-> "highScoreView"])],
               "practice"),
           ls |-> SetItem(ls, addHighScore(data,
                                  ScoreEntry(InitialsOrDefault(a), a.pendingScore.time,
                                             a.pendingScore.wordsCount, t),
                                  t)),
           added |-> TRUE ]

\* submitHighScore(): application state and store after it
submitHighScore(a, ls, t) ==
    IF ~Has(a.pendingScore, "time")
    THEN [app |-> a, ls |-> ls, added |-> FALSE]
    ELSE SubmitPending(a, ls, InitData(ls, t), t)

\* the Test Celebration button of the options screen
testCelebration(a, t) ==
    ShowScreen(
        [a EXCEPT !.words = <<"TEST">>,
                  !.currentWordIndex = 0,
                  !.timers = setTimeout(@,
                      [at |-> t + TestDelay, kind |-> "celebrate",
                        onComplete |-> "restore",
                        originalWords |-> a.words,
                        originalIndex |-> a.currentWordIndex])],
        "practice")

\* variant: the end of a celebration does not change the screen
RunTimerSilent(a, timer, t) ==
    LET rest == [a EXCEPT !.timers = TakeTimer(@, timer)]
    IN  IF timer.kind = "celebrate"
        THEN [rest EXCEPT !.timers = setTimeout(@, CelebrationEnd(timer, t))]
        ELSE IF timer.onComplete = "restore"
        THEN [rest EXCEPT !.words = timer.originalWords,
                          !.currentWordIndex = timer.originalIndex]
        ELSE rest
\* a setTimeout callback runs: the delayed start of a celebration, or the end
\* of one with its onComplete
RunTimer(a, timer, t) ==
    LET rest == [a EXCEPT !.timers = TakeTimer(@, timer)]
    IN  IF timer.kind = "celebrate"
        THEN [rest EXCEPT !.timers = setTimeout(@, CelebrationEnd(timer, t))]
        ELSE IF timer.onComplete = "restore"
        THEN [rest EXCEPT !.words = timer.originalWords,
                          !.currentWordIndex = timer.originalIndex]
        ELSE ShowScreen(rest, "highScoreView")
RunTimerStore(ls, timer, t) ==
    IF timer.kind = "celebrationEnd" /\ timer.onComplete = "highScoreView"
    THEN ShowScreenStore(ls, "highScoreView", t)
    ELSE ls

----------------------------------------------------------------------------
(* State, and the operations of the manager as actions.  Each operation    *)
(* takes the clock reading t it gets from Date.now().                      *)

Init ==
    /\ localStorage = EmptyObject
    /\ now = T0
    /\ ret = [op |-> "constructor"]
    /\ pushed = 0
    /\ app = NewApp(LoadedWords)

\* the stored document as a reader sees it (nothing stored: no game record)
Stored ==
    IF Readable(localStorage) THEN JSONparse(localStorage[storageKey]) ELSE NewData(now)

\* the stored document with the games object initData adds when it is missing
WithGames(data) == IF Has(data, "games") THEN data ELSE Put(data, "games", EmptyObject)

topTen == TopTenOf(WithGames(Stored))
historical == HistoricalOf(WithGames(Stored))
sessions ==
    IF Has(Stored, "games") /\ HasGame(Stored) /\ Has(Stored.games[gameId], "sessions")
    THEN Stored.games[gameId].sessions ELSE <<>>
stats == getStats(WithGames(Stored))
totalSessions ==
    IF Has(Stored, "games") /\ HasGame(Stored) /\ Has(Stored.games[gameId], "gameInfo")
    THEN Stored.games[gameId].gameInfo.totalSessions ELSE 0

\* the user id of the document initData returns to the operation
LoadedUserId(t) == InitData(localStorage, t).user.userId

SaveSession(t, sessionData) ==
    LET data == InitData(localStorage, t)
    IN  /\ now' = t
        /\ IF saveSessionThrows(data, sessionData, t)
           THEN /\ localStorage' = InitDataStore(localStorage, t)
                /\ ret' = [op |-> "saveSession", threw |-> TRUE,
                           userId |-> LoadedUserId(t), input |-> sessionData]
           ELSE /\ localStorage' = SetItem(InitDataStore(localStorage, t),
                                           saveSession(data, sessionData, t))
                /\ ret' = [op |-> "saveSession", threw |-> FALSE,
                           userId |-> LoadedUserId(t), input |-> sessionData,
                           session |-> NormalizeSession(sessionData, t)]
        /\ UNCHANGED <<pushed, app>>

GetStats(t) ==
    /\ localStorage' = InitDataStore(localStorage, t)
    /\ now' = t
    /\ ret' = [op |-> "getStats", threw |-> FALSE, userId |-> LoadedUserId(t),
               value |-> getStats(InitData(localStorage, t))]
    /\ UNCHANGED <<pushed, app>>

IsTopTenScore(t, time) ==
    /\ localStorage' = InitDataStore(localStorage, t)
    /\ now' = t
    /\ ret' = [op |-> "isTopTenScore", threw |-> FALSE, userId |-> LoadedUserId(t),
               time |-> time,
               value |-> isTopTenScore(InitData(localStorage, t), time)]
    /\ UNCHANGED <<pushed, app>>

AddHighScore(t, initials, time, wordsCount) ==
    LET data       == InitData(localStorage, t)
        scoreEntry == ScoreEntry(initials, time, wordsCount, t)
    IN  /\ now' = t
        /\ UNCHANGED app
        /\ IF addHighScoreThrows(data)
           THEN /\ localStorage' = InitDataStore(localStorage, t)
                /\ ret' = [op |-> "addHighScore", threw |-> TRUE,
                           userId |-> LoadedUserId(t)]
                /\ UNCHANGED pushed
           ELSE LET saved == addHighScore(data, scoreEntry, t)
                IN  /\ localStorage' = SetItem(localStorage, saved)
                    /\ ret' = [op |-> "addHighScore", threw |-> FALSE,
                               userId |-> LoadedUserId(t),
                               scoreEntry |-> scoreEntry,
                               value |-> FindIndex(TopTenOf(saved), scoreEntry) + 1]
                    /\ pushed' = pushed + 1

GetHighScores(t) ==
    /\ localStorage' = InitDataStore(localStorage, t)
    /\ now' = t
    /\ ret' = [op |-> "getHighScores", threw |-> FALSE, userId |-> LoadedUserId(t),
               value |-> getHighScores(InitData(localStorage, t))]
    /\ UNCHANGED <<pushed, app>>

ResetData(t) ==
    /\ localStorage' = EmptyObject
    /\ now' = t
    /\ ret' = [op |-> "resetData"]
    /\ pushed' = 0
    /\ UNCHANGED app

----------------------------------------------------------------------------
(* Inputs                                                                  *)

\* Date.now() at the next operation: the same millisecond or the next one
Readings == {t \in now..(now + 1) : t <= T0 + MaxClock}

Times == {1, 2}
Durations == 0..MaxDuration
WordCounts == {3}

\* the call the application makes before any score is added
FirstSession == [startTime |-> T0, duration |-> 2, completed |-> TRUE,
                 wordsCount |-> 3, shuffled |-> TRUE, backButtonUses |-> 0]

SessionInputs ==
    [duration : Durations, completed : BOOLEAN, wordsCount : WordCounts]

(* The leaderboard: one session creates the game record, then scores       *)

NextScores ==
    \/ \E t \in Readings :
           sessions = <<>> /\ SaveSession(t, FirstSession)
    \/ \E t \in Readings : \E time \in Times :
           pushed < MaxPushed /\ AddHighScore(t, <<"a", "b", "c", "d">>, time, 3)
    \/ \E t \in Readings : \E time \in Times : IsTopTenScore(t, time)
    \/ \E t \in Readings : ResetData(t)

SpecScores == Init /\ [][NextScores]_vars

(* The ledger: sessions are recorded, statistics are read                  *)

NextLedger ==
    \/ \E t \in Readings : \E sessionData \in SessionInputs :
           Len(sessions) < MaxSessions /\ SaveSession(t, sessionData)
    \/ \E t \in Readings : GetStats(t)
    \/ \E t \in Readings : ResetData(t)

SpecLedger == Init /\ [][NextLedger]_vars

(* The whole manager: every operation, on a short log and a short board    *)

NextManager ==
    \/ \E t \in Readings : \E sessionData \in {FirstSession, [completed |-> FALSE]} :
           Len(sessions) < MaxCalls /\ SaveSession(t, sessionData)
    \/ \E t \in Readings :
           pushed < MaxCalls /\ AddHighScore(t, <<"a", "b", "c", "d">>, 2, 3)
    \/ \E t \in Readings : GetStats(t)
    \/ \E t \in Readings : IsTopTenScore(t, 2)
    \/ \E t \in Readings : GetHighScores(t)
    \/ \E t \in Readings : ResetData(t)

SpecManager == Init /\ [][NextManager]_vars

(* Session inputs with any subset of the fields absent                    *)

SessionFields ==
    {"startTime", "duration", "completed", "wordsCount", "shuffled", "backButtonUses"}

FullSession == [startTime |-> T0, duration |-> 2, completed |-> TRUE,
                wordsCount |-> 3, shuffled |-> TRUE, backButtonUses |-> 1]

PartialSessions == {[k \in present |-> FullSession[k]] : present \in SUBSET SessionFields}

NextSessionInputs ==
    \/ \E t \in Readings : \E sessionData \in PartialSessions :
           Len(sessions) < MaxInputCalls /\ SaveSession(t, sessionData)
    \/ \E t \in Readings : ResetData(t)

SpecSessionInputs == Init /\ [][NextSessionInputs]_vars

(* Stored documents the page may find: nothing, text that is no JSON, and   *)
(* documents of older or partial saves with required fields missing        *)

\* the game record a first completed run leaves behind
OldGame == saveSession(NewData(T0 - 1), FirstSession, T0 - 1).games[gameId]

GameFields == {"gameInfo", "stats", "highScores", "sessions"}

\* data.games of a stored document: no game record, or one that lacks some fields
StoredGames ==
    {EmptyObject} \cup
    { [g \in {gameId} |-> [k \in (DOMAIN OldGame) \ missing |-> OldGame[k]]] :
          missing \in SUBSET GameFields }

\* the document without games: complete, without its user fields, without anything
StoredTops ==
    { [k \in {"version", "developer", "user", "achievements"} |-> NewData(T0 - 1)[k]],
      [user |-> EmptyObject],
      EmptyObject }

StoredDocuments ==
    {EmptyObject} \cup {Put(top, "games", games) : top \in StoredTops, games \in StoredGames}

StoredTexts == {Garbage} \cup {JSONstringify(doc) : doc \in StoredDocuments}

InitStore ==
    /\ localStorage \in {EmptyObject} \cup {[k \in {storageKey} |-> text] : text \in StoredTexts}
    /\ now = T0
    /\ ret = [op |-> "constructor"]
    /\ pushed = 0
    /\ app = NewApp(LoadedWords)

NextStore ==
    \/ \E t \in Readings : \E sessionData \in {FirstSession, [completed |-> FALSE]} :
           Len(sessions) < MaxCalls /\ SaveSession(t, sessionData)
    \/ \E t \in Readings : \E wordsCount \in {3, undefined} :
           pushed < MaxCalls /\ AddHighScore(t, <<"a", "b", "c", "d">>, 2, wordsCount)
    \/ \E t \in Readings : GetStats(t)
    \/ \E t \in Readings : IsTopTenScore(t, 2)
    \/ \E t \in Readings : GetHighScores(t)
    \/ \E t \in Readings : ResetData(t)

SpecStore == InitStore /\ [][NextStore]_vars

----------------------------------------------------------------------------
(* The application's event handlers as actions.  A handler runs at clock   *)
(* reading t; a timer runs at the time it was set for or, when the event   *)
(* loop is busy, up to MaxLate ms later, and handlers run in between.      *)

\* the ms a pending callback may still be kept waiting
Lateness == IF app.lateTimers < MaxLateTimers THEN MaxLate ELSE 0

\* no timer is overdue by more than that at reading t
Punctual(t) == \A timer \in PendingTimers(app) : t <= timer.at + Lateness

\* the first clock reading at which a pending callback may run
Earliest(timer) == IF now > timer.at THEN now ELSE timer.at

\* the clock readings at which a pending callback may run
TimerReadings(timer) == {Earliest(timer)} \cup {t \in {timer.at + Lateness} : t >= now}

\* ms between one event and the next
Steps == {0, BUTTON_COOLDOWN - 1, BUTTON_COOLDOWN}

\* clock readings of events: those that set a timer are explored up to
\* T0 + MaxAppClock, the others also later, in the millisecond of a timer
PressReadings ==
    {t \in {now + d : d \in Steps} : t <= T0 + MaxAppClock /\ Punctual(t)}
ClickReadings == PressReadings \cup {now}

OnStart(t, picks) ==
    /\ app.currentScreen = "title"
    /\ app' = ShowScreen(StartRun(app, picks, t), "practice")
    /\ now' = t
    /\ ret' = [op |-> "onStart"]
    /\ UNCHANGED <<localStorage, pushed>>

OnRace(t, picks) ==
    /\ app.currentScreen = "title"
    /\ \E started \in {StartRun(app, picks, t)} :
       \E scores \in {getHighScores(InitData(localStorage, t))} :
           app' = updateWord(
                      ShowScreen(
                          [started EXCEPT !.raceData =
                               initRaceMode(@, started.words, scores, t),
                                          !.racers = StartLine],
                          "race"),
                      t)
    /\ localStorage' = InitDataStore(localStorage, t)
    /\ now' = t
    /\ ret' = [op |-> "onRace"]
    /\ UNCHANGED pushed

OnOptions(t) ==
    /\ app.currentScreen = "title"
    /\ app' = ShowScreen(app, "options")
    /\ now' = t
    /\ ret' = [op |-> "onOptions"]
    /\ UNCHANGED <<localStorage, pushed>>

OnHighScores(t) ==
    /\ app.currentScreen = "title"
    /\ app' = ShowScreen(app, "highScoreView")
    /\ localStorage' = ShowScreenStore(localStorage, "highScoreView", t)
    /\ now' = t
    /\ ret' = [op |-> "onHighScores"]
    /\ UNCHANGED pushed

\* the Next button or the ArrowRight key, on the practice and race screens
HandleNextUpTo(t, cap) ==
    /\ app.currentScreen \in {"practice", "race"}
    /\ \E out \in {handleNext(app, localStorage, t)} :
           /\ out.recorded => Len(sessions) < cap
           /\ app' = out.app
           /\ localStorage' = out.ls
           /\ ret' = [op |-> "handleNext", accepted |-> out.accepted,
                      completion |-> out.completion, recorded |-> out.recorded]
    /\ now' = t
    /\ UNCHANGED pushed

HandleNext(t) == HandleNextUpTo(t, MaxRuns)

\* the Back button or the ArrowLeft key, on the practice and race screens
HandleBack(t) ==
    /\ app.currentScreen \in {"practice", "race"}
    /\ \E out \in {handleBack(app, t)} :
           /\ app' = out.app
           /\ ret' = [op |-> "handleBack", accepted |-> out.accepted]
    /\ now' = t
    /\ UNCHANGED <<localStorage, pushed>>

KeyLetter(t, c) ==
    /\ app.currentScreen = "highScoreInput"
    /\ app' = TypeLetter(app, c)
    /\ now' = t
    /\ ret' = [op |-> "keyLetter", key |-> c]
    /\ UNCHANGED <<localStorage, pushed>>

KeyBackspace(t) ==
    /\ app.currentScreen = "highScoreInput"
    /\ app' = TypeBackspace(app)
    /\ now' = t
    /\ ret' = [op |-> "keyBackspace"]
    /\ UNCHANGED <<localStorage, pushed>>

\* the Submit button or the Enter key, on the highScoreInput screen
SubmitHighScore(t) ==
    /\ app.currentScreen = "highScoreInput"
    /\ \E out \in {submitHighScore(app, localStorage, t)} :
           /\ app' = out.app
           /\ localStorage' = out.ls
           /\ pushed' = IF out.added THEN pushed + 1 ELSE pushed
           /\ ret' = [op |-> "submitHighScore", added |-> out.added]
    /\ now' = t

OnReturnToTitle(t) ==
    /\ app.currentScreen = "end"
    /\ app' = ShowScreen([app EXCEPT !.currentWordIndex = 0], "title")
    /\ now' = t
    /\ ret' = [op |-> "onReturnToTitle"]
    /\ UNCHANGED <<localStorage, pushed>>

OnShuffleRestart(t, picks) ==
    /\ app.currentScreen = "end"
    /\ app' = ShowScreen(StartRun(app, picks, t), "practice")
    /\ now' = t
    /\ ret' = [op |-> "onShuffleRestart"]
    /\ UNCHANGED <<localStorage, pushed>>

\* Reset Progress, confirmed: resetSaveData() then the title screen
ResetProgress(t) ==
    /\ app.currentScreen = "options"
    /\ app' = ShowScreen(app, "title")
    /\ localStorage' = InitDataStore(EmptyObject, t)
    /\ pushed' = 0
    /\ now' = t
    /\ ret' = [op |-> "resetSaveData"]

TestCelebration(t) ==
    /\ app.currentScreen = "options"
    /\ app' = testCelebration(app, t)
    /\ now' = t
    /\ ret' = [op |-> "testCelebration"]
    /\ UNCHANGED <<localStorage, pushed>>

\* Back to Title, on the options and the highScoreView screens
BackToTitle(t) ==
    /\ app.currentScreen \in {"options", "highScoreView"}
    /\ app' = ShowScreen(app, "title")
    /\ now' = t
    /\ ret' = [op |-> "backToTitle"]
    /\ UNCHANGED <<localStorage, pushed>>

\* the earliest timer runs, at clock reading t
TimerFires(timer, t) ==
    /\ \A other \in PendingTimers(app) : timer.at <= other.at
    /\ app' = [RunTimer(app, timer, t) EXCEPT
                   !.lateTimers = IF t > timer.at THEN @ + 1 ELSE @]
    /\ localStorage' = RunTimerStore(localStorage, timer, t)
    /\ now' = t
    /\ ret' = [op |-> "timer", kind |-> timer.kind, onComplete |-> timer.onComplete]
    /\ UNCHANGED pushed

Letters == {"a"}

NextApp ==
    \/ \E t \in ClickReadings : \E picks \in Picks(app.words) : OnStart(t, picks)
    \/ \E t \in ClickReadings : \E picks \in Picks(app.words) : OnRace(t, picks)
    \/ \E t \in ClickReadings : OnOptions(t)
    \/ \E t \in ClickReadings : OnHighScores(t)
    \/ \E t \in ClickReadings : HandleNext(t)
    \/ \E t \in ClickReadings : HandleBack(t)
    \/ \E t \in PressReadings : \E c \in Letters : KeyLetter(t, c)
    \/ \E t \in PressReadings : KeyBackspace(t)
    \/ \E t \in PressReadings : SubmitHighScore(t)
    \/ \E t \in ClickReadings : OnReturnToTitle(t)
    \/ \E t \in ClickReadings : \E picks \in Picks(app.words) : OnShuffleRestart(t, picks)
    \/ \E t \in ClickReadings : ResetProgress(t)
    \/ \E t \in PressReadings : TestCelebration(t)
    \/ \E t \in ClickReadings : BackToTitle(t)
    \/ \E timer \in PendingTimers(app) : \E t \in TimerReadings(timer) : TimerFires(timer, t)

SpecApp == Init /\ [][NextApp]_vars

\* setTimeout callbacks are run by the event loop once they are due
SpecAppFair == SpecApp /\ WF_vars(\E timer \in PendingTimers(app) : \E t \in TimerReadings(timer) : TimerFires(timer, t))

----------------------------------------------------------------------------
(* The application with a word list of at most one word, on an empty store *)
(* and on the stores that earlier visits left after ten runs of equal      *)
(* duration, each entered on the leaderboard.  A callback runs as soon as  *)
(* the handlers before it are done.                                        *)

WordLists == {<<>>, <<"cat">>}

\* the seconds each of the earlier runs took
BoardTimes == {0, 1}

\* the shortest run, in ms, that Math.round((end - start) / 1000) counts as d seconds
RunMs(d) == IF d = 0 THEN 0 ELSE d * 1000 - 500

\* the shortest run of n words, in ms: the presses after the first are a
\* cooldown apart
QuickestMs(n) == IF n <= 1 THEN 0 ELSE (n - 1) * BUTTON_COOLDOWN

\* a run of n words can take d seconds
CanTake(n, d) == RunMs(d) >= QuickestMs(n)

\* the session of an earlier run of n words that took d seconds and ended at t
EarlierSession(n, d, t) ==
    [ startTime |-> t - RunMs(d), duration |-> d, completed |-> TRUE,
      wordsCount |-> n, shuffled |-> TRUE, backButtonUses |-> 0 ]
\* the store after the score of that run was entered with the default initials
EnterScore(saved, n, d, t) ==
    SetItem(saved, addHighScore(InitData(saved, t),
                                ScoreEntry(<<"A", "A", "A">>, d, n, t), t))
\* the store after the session of such a run was saved and its score entered
PlayRun(ls, n, d, t) ==
    EnterScore(SetItem(ls, saveSession(InitData(ls, t), EarlierSession(n, d, t), t)),
               n, d, t)
\* the store after k such runs, the last one a millisecond before T0
RECURSIVE Played(_, _, _, _)
Played(ls, k, n, d) ==
    IF k = 0 THEN ls ELSE Played(PlayRun(ls, n, d, T0 - k), k - 1, n, d)

InitShort ==
    /\ \E ws \in WordLists :
           /\ app = NewApp(ws)
           /\ localStorage \in
                  {EmptyObject} \cup
                  {Played(EmptyObject, TopTenSize, Len(ws), d) : d \in BoardTimes}
    /\ now = T0
    /\ ret = [op |-> "constructor"]
    /\ pushed = 0

NextShort ==
    \/ \E t \in ClickReadings : \E picks \in Picks(app.words) : OnStart(t, picks)
    \/ \E t \in ClickReadings : \E picks \in Picks(app.words) : OnRace(t, picks)
    \/ \E t \in ClickReadings : HandleNextUpTo(t, TopTenSize + MaxRuns)
    \/ \E t \in ClickReadings : HandleBack(t)
    \/ \E t \in PressReadings : \E c \in Letters : KeyLetter(t, c)
    \/ \E t \in PressReadings : SubmitHighScore(t)
    \/ \E t \in ClickReadings : BackToTitle(t)
    \/ \E timer \in PendingTimers(app) : \E t \in {Earliest(timer)} : TimerFires(timer, t)

SpecShort == InitShort /\ [][NextShort]_vars

----------------------------------------------------------------------------
(* updateRacePositions applied to drawn inputs: the state is the one Race  *)
(* leaves on a list of n equal words and a board of two earlier runs, and  *)
(* the function is called with an index and a clock reading.               *)

WordTotals == {0, 1, 10}
BoardPairs == {<<0, 0>>, <<0, 1>>, <<1, 1>>, <<1, 100>>, <<5, 5>>, <<5, 100>>, <<100, 100>>}
ElapsedMs == {0, 500, 50000, 100000, 150000}

WordsOf(n) == [i \in 1..n |-> "cat"]

\* the store after two earlier runs of pair[1] and pair[2] seconds
BoardOf(pair, n) ==
    PlayRun(PlayRun(EmptyObject, n, pair[1], T0 - 2), n, pair[2], T0 - 1)

\* the application after onRace at T0 on the store ls
Racing(ws, ls) ==
    updateWord(
        ShowScreen(
            [StartRun(NewApp(ws), [i \in 1..(Len(ws) - 1) |-> 0], T0) EXCEPT
                 !.raceData = initRaceMode(@, ws, getHighScores(InitData(ls, T0)), T0)],
            "race"),
        T0)

InitRace ==
    /\ \E n \in WordTotals :
           \E ls \in {EmptyObject} \cup
                       {BoardOf(pair, n) : pair \in {p \in BoardPairs :
                                                       CanTake(n, p[1]) /\ CanTake(n, p[2])}} :
               /\ localStorage = InitDataStore(ls, T0)
               /\ app = Racing(WordsOf(n), ls)
    /\ now = T0
    /\ ret = [op |-> "onRace"]
    /\ pushed = 0

\* updateWord() on the race screen, with the index at any word of the list
UpdateRacePositions(index, t) ==
    /\ app.currentScreen = "race"
    /\ t >= now
    /\ app' = updateWord([app EXCEPT !.currentWordIndex = index], t)
    /\ now' = t
    /\ ret' = [op |-> "updateRacePositions"]
    /\ UNCHANGED <<localStorage, pushed>>

NextRace ==
    \/ \E index \in {0} \cup (0..(Len(app.words) - 1)) : \E e \in ElapsedMs :
           UpdateRacePositions(index, T0 + e)

SpecRace == InitRace /\ [][NextRace]_vars

----------------------------------------------------------------------------
(* Properties of the leaderboard, checked under SpecScores                 *)

Added == ret.op = "addHighScore" /\ ~ret.threw

SortedByTime(scores) ==
    \A i \in 1..Len(scores) : \A j \in i..Len(scores) : scores[i].time <= scores[j].time

\* C1: after every addHighScore call, from an empty or reset store, topTen is
\* sorted ascending by time and holds at most 10 entries.
C1_TopTenSortedAndBounded ==
    SortedByTime(topTen) /\ Len(topTen) <= TopTenSize

\* an eleventh score has been added to a full board of unequal times
C1_Witness ==
    /\ Added
    /\ Len(topTen) = TopTenSize
    /\ Len(historical) >= 1
    /\ topTen[1].time < topTen[TopTenSize].time

\* C2: isTopTenScore(time) is true whenever topTen has fewer than 10 entries;
\* on a full topTen it is true exactly when time is strictly less than the time
\* of the last entry.
C2_QualifyingBoundary ==
    ret.op = "isTopTenScore" =>
        ret.value = IF Len(topTen) < TopTenSize THEN TRUE
                    ELSE ret.time < Last(topTen).time

\* on a full board the worst time T was asked and refused, while T - 1 qualifies
C2_Witness ==
    /\ ret.op = "isTopTenScore"
    /\ Len(topTen) = TopTenSize
    /\ ret.time = Last(topTen).time
    /\ ret.value = FALSE
    /\ isTopTenScore(Stored, ret.time - 1)

\* C3: no score entry is lost: the entries pushed by addHighScore since the last
\* reset are all in topTen or in historical, and every historical entry carries
\* wasInTopTen = true.
C3_NoEntryLost ==
    /\ Len(topTen) + Len(historical) = pushed
    /\ \A i \in 1..Len(historical) : WasInTopTen(historical[i])

\* C4: no timestamp occurs more than once in historical.
C4_HistoricalTimestampsDistinct ==
    \A i \in 1..Len(historical) : \A j \in 1..Len(historical) :
        historical[i].timestamp = historical[j].timestamp => i = j

\* an addHighScore call has evicted an entry whose timestamp historical already
\* held: the call returned and the entry is in neither list
C4_Witness ==
    /\ Added
    /\ Len(historical) >= 1
    /\ Len(topTen) + Len(historical) < pushed

\* C5: addHighScore returns the 1-based position in topTen of the entry it has
\* just created.
C5_RankIsPositionOfNewEntry ==
    Added =>
        /\ ret.value \in 1..Len(topTen)
        /\ topTen[ret.value] = ret.scoreEntry

\* s with e put behind its first p elements
InsertAt(s, p, e) == SubSeq(s, 1, p) \o <<e>> \o SubSeq(s, p + 1, Len(s))

Take(s, n) == SubSeq(s, 1, IF Len(s) < n THEN Len(s) ELSE n)

\* C6: ties are ranked by insertion order: addHighScore puts the new entry
\* behind every entry of topTen whose time is less than or equal to its own and
\* in front of every entry with a greater time, and leaves the order of the
\* entries that were there unchanged.
C6_TiesByInsertionOrder ==
    [][ (ret'.op = "addHighScore" /\ ~ret'.threw) =>
            \E p \in 0..Len(topTen) :
                /\ \A i \in 1..p : topTen[i].time <= ret'.scoreEntry.time
                /\ \A i \in (p + 1)..Len(topTen) : topTen[i].time > ret'.scoreEntry.time
                /\ topTen' = Take(InsertAt(topTen, p, ret'.scoreEntry), TopTenSize)
      ]_vars

\* the entry just added shares its time with an older entry and stands behind it
C6_Witness ==
    /\ Added
    /\ \E i \in 1..Len(topTen) : \E j \in (i + 1)..Len(topTen) :
           /\ topTen[j] = ret.scoreEntry
           /\ topTen[i].time = topTen[j].time
           /\ topTen[i].timestamp < topTen[j].timestamp

----------------------------------------------------------------------------
(* Properties of the ledger, checked under SpecLedger                      *)

\* the stats sub-document as stored (the defaults when there is no game record)
StoredStats == IF HasGame(Stored) THEN Stored.games[gameId].stats ELSE NewGame(now).stats

\* the logged sessions with completed = true and duration > 0
Completed == SelectSeq(sessions, LAMBDA s : s.completed /\ s.duration > 0)

MinDuration(ss) ==
    CHOOSE d \in {ss[i].duration : i \in 1..Len(ss)} :
        \A i \in 1..Len(ss) : d <= ss[i].duration

\* C7: bestTime is the minimum duration over the logged sessions with
\* completed = true and duration > 0, and null when there is none.
C7_BestTimeIsMinimum ==
    LET best == IF Completed = <<>> THEN null ELSE MinDuration(Completed)
    IN  stats.bestTime = best /\ StoredStats.bestTime = best

\* the best session is neither the first nor the last one logged
C7_Witness ==
    /\ ret.op = "saveSession"
    /\ Len(Completed) >= 3
    /\ stats.bestTime < Completed[1].duration
    /\ stats.bestTime < Last(Completed).duration

\* C8: averageTime is the mean duration of the logged sessions with
\* completed = true and duration > 0, rounded to the nearest integer, and 0
\* when there is none.
C8_AverageTimeIsRoundedMean ==
    LET n   == Len(Completed)
        sum == SumDuration(Completed)
        avg == stats.averageTime
    IN  /\ StoredStats.averageTime = avg
        /\ IF n = 0 THEN avg = 0
           ELSE /\ 2 * (avg * n - sum) <= n
                /\ 2 * (sum - avg * n) <= n

\* three sessions count, their mean is no integer and the last one is not the
\* average of the two before
C8_Witness ==
    /\ ret.op = "saveSession"
    /\ Len(Completed) = 3
    /\ Len(sessions) = 3
    /\ stats.averageTime * 3 # SumDuration(Completed)
    /\ Completed[1].duration < Completed[2].duration

\* C10: saveSession changes the statistics only for a session with
\* completed = true and duration > 0 (totalCompletions + 1,
\* totalWordsCompleted + wordsCount); for any other session the four statistics
\* are unchanged; totalSessions increases by one in both cases.
C10_StatsChangeOnlyWhenCompleted ==
    [][ ret'.op = "saveSession" =>
            /\ totalSessions' = totalSessions + 1
            /\ IF ret'.session.completed /\ ret'.session.duration > 0
               THEN /\ stats'.totalCompletions = stats.totalCompletions + 1
                    /\ stats'.totalWordsCompleted =
                           stats.totalWordsCompleted + ret'.session.wordsCount
               ELSE stats' = stats /\ StoredStats' = StoredStats
      ]_vars

\* a session {duration: 0, completed: true} was recorded after one that counted
C10_Witness ==
    /\ ret.op = "saveSession"
    /\ ret.session.completed
    /\ ret.session.duration = 0
    /\ stats.totalCompletions >= 1
    /\ stats.bestTime # null
    /\ totalSessions = stats.totalCompletions + 1

----------------------------------------------------------------------------
(* Property of the session log, checked under SpecManager                  *)

\* C9: the session log is append-only: saveSession appends exactly one session
\* at the end and leaves the earlier ones unchanged, resetData empties the log,
\* and no other operation changes it.
C9_SessionsAppendOnly ==
    [][ CASE ret'.op = "saveSession" ->
                /\ Len(sessions') = Len(sessions) + 1
                /\ SubSeq(sessions', 1, Len(sessions)) = sessions
                /\ Last(sessions').duration = ret'.session.duration
                /\ Last(sessions').completed = ret'.session.completed
          [] ret'.op = "resetData" -> sessions' = <<>>
          [] OTHER -> sessions' = sessions
      ]_vars

\* a second session was appended after scores had been added
C9_Witness ==
    /\ ret.op = "saveSession"
    /\ Len(sessions) = 2
    /\ Len(topTen) >= 1
    /\ sessions[1].completed /\ ~sessions[2].completed

----------------------------------------------------------------------------
(* Property of the session defaults, checked under SpecSessionInputs       *)

\* obj[key] when present, else the default
FieldOr(obj, key, default) == IF Has(obj, key) THEN obj[key] ELSE default

\* C11: saveSession never rejects its input: whatever subset of the fields is
\* absent, it returns normally and appends exactly one session, in which an
\* absent duration, wordsCount or backButtonUses is 0 and an absent completed
\* or shuffled flag is false.
C11_AbsentFieldsDefaulted ==
    [][ ret'.op = "saveSession" =>
            /\ ~ret'.threw
            /\ Len(sessions') = Len(sessions) + 1
            /\ Last(sessions').duration = FieldOr(ret'.input, "duration", 0)
            /\ Last(sessions').wordsCount = FieldOr(ret'.input, "wordsCount", 0)
            /\ Last(sessions').backButtonUses = FieldOr(ret'.input, "backButtonUses", 0)
            /\ Last(sessions').completed = FieldOr(ret'.input, "completed", FALSE)
            /\ Last(sessions').shuffled = FieldOr(ret'.input, "shuffled", FALSE)
      ]_vars

\* saveSession({}) was called: one session with all the defaults is logged
C11_Witness ==
    /\ ret.op = "saveSession"
    /\ DOMAIN ret.input = {}
    /\ Len(sessions) = 1
    /\ sessions[1].duration = 0 /\ ~sessions[1].completed
    /\ totalSessions = 1

----------------------------------------------------------------------------
(* Property of the empty store, checked under SpecManager                  *)

EmptyStats ==
    [bestTime |-> null, averageTime |-> 0, totalCompletions |-> 0,
     totalWordsCompleted |-> 0]

\* C12: on a store without a game record (nothing written yet, or resetData
\* called) getStats returns {null, 0, 0, 0}, getHighScores returns two empty
\* sequences and isTopTenScore is true for every time.
C12_EmptyStoreDefaults ==
    [][ ~HasGame(Stored) =>
            /\ ret'.op = "getStats" => ret'.value = EmptyStats
            /\ ret'.op = "getHighScores" =>
                   ret'.value = [topTen |-> <<>>, historical |-> <<>>]
            /\ ret'.op = "isTopTenScore" => ret'.value = TRUE
            /\ \A time \in 0..MaxDuration : isTopTenScore(InitData(localStorage, now'), time)
      ]_vars

\* getStats has answered on a store that holds the default document only
C12_Witness ==
    /\ ret.op = "getStats"
    /\ ret.value = EmptyStats
    /\ Has(localStorage, storageKey)
    /\ ~HasGame(Stored)
    /\ now > T0

----------------------------------------------------------------------------
(* Properties of the store, checked under SpecStore                        *)

\* C13: initData never fails: when nothing is stored or the stored text does
\* not parse, the operation works on a new default document with a new user
\* profile and no game record, which is written to the store, and the
\* operation answers as on an empty store.
C13_UnreadableStoreDefaults ==
    [][ (~Readable(localStorage) /\ ret'.op # "resetData") =>
            /\ Readable(localStorage')
            /\ ret'.userId = now'
            /\ Stored'.user = NewData(now').user
            /\ CASE ret'.op = "getStats" ->
                        ret'.value = EmptyStats /\ Stored' = NewData(now')
                 [] ret'.op = "isTopTenScore" ->
                        ret'.value = TRUE /\ Stored' = NewData(now')
                 [] ret'.op = "getHighScores" ->
                        /\ ret'.value = [topTen |-> <<>>, historical |-> <<>>]
                        /\ Stored' = NewData(now')
                 [] ret'.op = "saveSession" ->
                        ~ret'.threw /\ Len(sessions') = 1 /\ totalSessions' = 1
                 [] OTHER -> Stored' = NewData(now')
      ]_vars

\* a session was recorded into a document created by this very operation
C13_Witness ==
    /\ ret.op = "saveSession"
    /\ ret.userId = now
    /\ Stored.user.userId = now
    /\ Len(sessions) = 1
    /\ sessions[1].sessionId = now

\* C14: round trip: saving the document initData returns and loading again
\* yields an equal document, at whatever times the two loads happen.
C14_SaveLoadRoundTrip ==
    \A t1 \in now..(now + 1) : \A t2 \in t1..(t1 + 1) :
        LET loaded == InitData(localStorage, t1)
            saved  == SetItem(InitDataStore(localStorage, t1), loaded)
        IN  InitData(saved, t2) = loaded

\* the stored document holds a session and a score entry whose undefined
\* wordsCount was left out of the stored text
C14_Witness ==
    /\ Added
    /\ ret.scoreEntry.wordsCount = undefined
    /\ Len(sessions) >= 1
    /\ Len(topTen) >= 1
    /\ \E i \in 1..Len(topTen) : ~Has(topTen[i], "wordsCount")

\* C15: the user identity is created once: two consecutive operations that
\* are not separated by resetData get the same userId from initData.
C15_UserIdCreatedOnce ==
    [][ (Has(ret, "userId") /\ Has(ret', "userId")) => ret'.userId = ret.userId ]_vars

\* C16: no operation fails on a stored document that parses, whichever
\* required fields it lacks.
C16_NoOperationFails ==
    ~(Has(ret, "threw") /\ ret.threw)

----------------------------------------------------------------------------
(* Properties of navigation, checked under SpecApp                         *)

\* C17: a handleNext less than 500 ms after the previous accepted handleNext
\* is dropped: the application state (word index, screen, pending timers,
\* lastNextTime) and the store (session log, leaderboard) are unchanged.
C17_AdvanceInCooldownDropped ==
    [][ (ret'.op = "handleNext" /\ now' - app.lastNextTime < BUTTON_COOLDOWN) =>
            /\ app' = app
            /\ localStorage' = localStorage
      ]_vars

\* a press 499 ms after an accepted one was dropped: the index changed once
C17_Witness ==
    /\ ret.op = "handleNext"
    /\ ~ret.accepted
    /\ now = app.lastNextTime + BUTTON_COOLDOWN - 1
    /\ app.currentWordIndex = 1
    /\ app.advances = 1

\* C18: handleBack is dropped exactly when it comes less than 500 ms after
\* the previous accepted handleBack, and handleNext exactly when less than
\* 500 ms after the previous accepted handleNext; neither touches the other's
\* timer.
C18_CooldownsIndependent ==
    [][ /\ ret'.op = "handleBack" =>
               /\ ret'.accepted <=> now' - app.lastBackTime >= BUTTON_COOLDOWN
               /\ app'.lastBackTime = (IF ret'.accepted THEN now' ELSE app.lastBackTime)
               /\ app'.lastNextTime = app.lastNextTime
        /\ ret'.op = "handleNext" =>
               /\ ret'.accepted <=> now' - app.lastNextTime >= BUTTON_COOLDOWN
               /\ app'.lastNextTime = (IF ret'.accepted THEN now' ELSE app.lastNextTime)
               /\ app'.lastBackTime = app.lastBackTime
      ]_vars

\* a handleBack in the millisecond of an accepted handleNext was applied
C18_Witness ==
    /\ ret.op = "handleBack"
    /\ ret.accepted
    /\ app.lastNextTime = now
    /\ app.lastBackTime = now
    /\ app.advances = 1
    /\ app.currentWordIndex = 0
    /\ app.backButtonUses = 1

\* C19: with n >= 1 words the index stays within 0..n-1; an accepted
\* handleNext below n-1 adds 1 to the index and records nothing, one at n-1
\* triggers completion and keeps the index; the first completion of a run
\* without retreat is the n-th accepted handleNext since the start.
C19_IndexAndCompletion ==
    [][ (Len(app.words) >= 1 /\ ret'.op = "handleNext" /\ ret'.accepted) =>
            /\ app'.currentWordIndex \in 0..(Len(app'.words) - 1)
            /\ app.currentWordIndex < Len(app.words) - 1 =>
                   /\ app'.currentWordIndex = app.currentWordIndex + 1
                   /\ localStorage' = localStorage
                   /\ ~ret'.completion
            /\ app.currentWordIndex = Len(app.words) - 1 =>
                   /\ ret'.completion
                   /\ app'.currentWordIndex = app.currentWordIndex
            /\ (ret'.completion /\ app.backButtonUses = 0 /\ app.completions = 0
                   /\ app.sessionStartTime # null) =>
                   app'.advances = Len(app.words)
      ]_vars

\* C20: an accepted handleBack above index 0 takes 1 from the index and adds
\* 1 to backButtonUses, at index 0 it changes neither; handleBack never
\* changes the store (session log, leaderboard) or the screen.
C20_RetreatEffect ==
    [][ ret'.op = "handleBack" =>
            /\ (ret'.accepted /\ app.currentWordIndex > 0) =>
                   /\ app'.currentWordIndex = app.currentWordIndex - 1
                   /\ app'.backButtonUses = app.backButtonUses + 1
            /\ app.currentWordIndex = 0 =>
                   /\ app'.currentWordIndex = 0
                   /\ app'.backButtonUses = app.backButtonUses
            /\ localStorage' = localStorage
            /\ app'.currentScreen = app.currentScreen
            /\ app'.pendingScore = app.pendingScore
      ]_vars

\* after one accepted handleNext an accepted handleBack has left the index
\* at 0 with one back-button use counted
C20_Witness ==
    /\ ret.op = "handleBack"
    /\ ret.accepted
    /\ app.lastBackTime = now
    /\ app.currentWordIndex = 0
    /\ app.backButtonUses = 1
    /\ app.advances = 1
    /\ app.lastNextTime + BUTTON_COOLDOWN <= now

----------------------------------------------------------------------------
(* Properties of start and completion, checked under SpecApp               *)

\* the number of places of ws that hold w
Count(ws, w) == Cardinality({i \in 1..Len(ws) : ws[i] = w})

\* same words with the same multiplicities
IsPermutation(ws, vs) ==
    /\ Len(ws) = Len(vs)
    /\ \A i \in 1..Len(vs) : Count(ws, vs[i]) = Count(vs, vs[i])

IsStart(op) == op \in {"onStart", "onRace", "onShuffleRestart"}

\* what every start does to the application state
StartEffect ==
    /\ IsPermutation(app'.words, app.words)
    /\ app'.currentWordIndex = 0
    /\ app'.backButtonUses = 0
    /\ app'.sessionStartTime = now'
    /\ app'.currentScreen = (IF ret'.op = "onRace" THEN "race" ELSE "practice")

\* C21 as stated: every start (Start, Race, Shuffle & Restart) permutes the
\* words, sets index and backButtonUses to 0, records the start time, enters
\* the mode's screen, and leaves the stored document unchanged.
C21_StartLeavesStoreUnchanged ==
    [][ IsStart(ret'.op) => (StartEffect /\ localStorage' = localStorage) ]_vars

\* C21, amended: as above, except that the store is left unchanged by Start
\* and Shuffle & Restart and by Race on a readable document, while Race on a
\* store without a readable document writes the default document (a new user
\* profile, no game record).
C21_StartEffect ==
    [][ IsStart(ret'.op) =>
            /\ StartEffect
            /\ (ret'.op # "onRace" \/ Readable(localStorage)) =>
                   localStorage' = localStorage
            /\ (ret'.op = "onRace" /\ ~Readable(localStorage)) =>
                   /\ Readable(localStorage')
                   /\ Stored' = NewData(now')
      ]_vars

\* a race was started on a store holding a game record, with the words in the
\* other order than loaded
C21_Witness ==
    /\ ret.op = "onRace"
    /\ app.words # LoadedWords
    /\ app.currentScreen = "race"
    /\ app.sessionStartTime = now
    /\ Len(sessions) >= 1

\* a step of handleNext that completed a started run
IsCompletion ==
    /\ ret'.op = "handleNext"
    /\ ret'.completion
    /\ app.sessionStartTime # null

\* d is a whole number of seconds nearest to ms milliseconds
NearestSecond(d, ms) ==
    \A k \in 0..(ms \div 1000 + 1) :
        (IF d * 1000 >= ms THEN d * 1000 - ms ELSE ms - d * 1000)
            <= (IF k * 1000 >= ms THEN k * 1000 - ms ELSE ms - k * 1000)

\* backButtonUses counts the accepted retreats at index > 0 since the start
CountsRetreats ==
    app'.backButtonUses =
        IF IsStart(ret'.op) THEN 0
        ELSE IF ret'.op = "handleBack" /\ ret'.accepted /\ app.currentWordIndex > 0
        THEN app.backButtonUses + 1
        ELSE app.backButtonUses

\* C22: the completion of a run appends exactly one session to the log; its
\* duration is the whole number of seconds nearest to the time since the
\* run's start, completed and shuffled are true, wordsCount is the length
\* of the word list and backButtonUses the number of accepted retreats at
\* index > 0 since that start.
C22_CompletionRecordsSession ==
    [][ /\ CountsRetreats
        /\ IsCompletion =>
             /\ ret'.recorded
             /\ Len(sessions') = Len(sessions) + 1
             /\ Front(sessions') = sessions
             /\ Last(sessions').startTime = app.sessionStartTime
             /\ NearestSecond(Last(sessions').duration, now' - app.sessionStartTime)
             /\ Last(sessions').completed = TRUE
             /\ Last(sessions').shuffled = TRUE
             /\ Last(sessions').wordsCount = Len(app.words)
             /\ Last(sessions').backButtonUses = app.backButtonUses
      ]_vars

\* a run completed a second after its start and after a retreat: the session
\* has duration 1 and backButtonUses >= 1
C22_Witness ==
    /\ ret.op = "handleNext"
    /\ ret.recorded
    /\ sessions # <<>>
    /\ now - Last(sessions).startTime = 2 * BUTTON_COOLDOWN
    /\ Last(sessions).duration = 1
    /\ Last(sessions).backButtonUses >= 1
    /\ Last(sessions).wordsCount = Len(LoadedWords)

----------------------------------------------------------------------------
(* Properties of completion on short word lists, checked under SpecShort   *)

\* C23: every completion of a run records the session, checks the
\* qualification and changes the screen in one step, in that order, so that
\* no other action comes between them and the screen does not change before
\* the session is stored.
C23_CompletionInOneStep ==
    [][ IsCompletion =>
            /\ ret'.recorded
            /\ app'.currentScreen \in {"highScoreInput", "highScoreView", "end"}
      ]_vars

\* the run that completes in this step qualifies for the stored leaderboard
Qualifies == isTopTenScore(WithGames(Stored'), Last(sessions').duration)

OnRunScreen(a) == a.currentScreen \in {"practice", "race"}

\* a celebration is running whose end shows the leaderboard
ViewPending(a) ==
    \E timer \in PendingTimers(a) :
        timer.kind = "celebrationEnd" /\ timer.onComplete = "highScoreView"

\* C24: on completion the screen that follows the run is decided by the
\* qualification alone.  A qualifying run goes to highScoreInput with a
\* pending score of its duration, the list length and newBest = (no best
\* time before the run was recorded, or duration below the earlier best);
\* a run that does not qualify sets no pending score and the screen that
\* follows is end or highScoreView.  Neither adds a leaderboard entry.
C24_ScreenByQualification ==
    [][ /\ IsCompletion =>
             /\ topTen' = topTen /\ historical' = historical
             /\ Qualifies =>
                  /\ app'.currentScreen = "highScoreInput"
                  /\ app'.pendingScore =
                         [ time       |-> Last(sessions').duration,
                           wordsCount |-> Len(app.words),
                           isNewBest  |-> \/ stats.bestTime = null
                                          \/ Last(sessions').duration < stats.bestTime ]
             /\ ~Qualifies =>
                  /\ app'.pendingScore = NoPendingScore
                  /\ \/ app'.currentScreen \in {"end", "highScoreView"}
                     \/ app'.currentScreen = app.currentScreen /\ ViewPending(app')
        /\ (OnRunScreen(app) /\ ~OnRunScreen(app')) =>
             IF IsCompletion /\ Qualifies
             THEN app'.currentScreen = "highScoreInput"
             ELSE app'.currentScreen \in {"end", "highScoreView"}
      ]_vars

\* a run that qualified without being a new best waits for its initials
C24_Witness ==
    /\ ret.op = "handleNext"
    /\ ret.recorded
    /\ app.currentScreen = "highScoreInput"
    /\ Has(app.pendingScore, "time")
    /\ app.pendingScore.time = Last(sessions).duration
    /\ app.pendingScore.isNewBest = FALSE
    /\ Len(topTen) < Len(sessions)

\* a run that did not qualify went to highScoreView
C24_NotQualifying ==
    /\ ret.op = "handleNext"
    /\ ret.recorded
    /\ app.currentScreen = "highScoreView"
    /\ Len(topTen) = TopTenSize

IsPending(a) == Has(a.pendingScore, "time")

\* the same score: entries are compared without the mark historical adds
SameScore(e, f) ==
    /\ e.initials = f.initials /\ e.time = f.time
    /\ e.wordsCount = f.wordsCount /\ e.timestamp = f.timestamp

\* the entries of both lists
Board == [i \in 1..(Len(topTen) + Len(historical)) |->
             IF i <= Len(topTen) THEN topTen[i] ELSE historical[i - Len(topTen)]]

UpperCase(initials) == \A i \in 1..Len(initials) : ToUpperCase(initials[i]) = initials[i]

\* how often the score e stands in the list b
CountScore(b, e) == Cardinality({i \in 1..Len(b) : SameScore(b[i], e)})

\* the entry a submit at time t has to add for the pending score of a
PendingEntry(a, t) ==
    [ initials   |-> IF a.currentInitials = <<>> THEN <<"A", "A", "A">>
                     ELSE a.currentInitials,
      time       |-> a.pendingScore.time,
      wordsCount |-> a.pendingScore.wordsCount,
      timestamp  |-> t ]

\* C25: submitHighScore with a pending score adds exactly one leaderboard
\* entry, with the pending time and word count and the typed initials cut
\* to at most 3 upper-case characters ("AAA" when nothing was typed), and
\* clears the pending score; without a pending score it changes neither the
\* leaderboard nor the screen.  The typed initials are what the letter keys
\* have built: each key appends its upper-case letter while fewer than 3
\* are typed.
C25_SubmitAddsOneEntry ==
    [][ /\ (ret'.op = "keyLetter") =>
               app'.currentInitials =
                   IF Len(app.currentInitials) < InitialsMax
                   THEN Append(app.currentInitials, ToUpperCase(ret'.key))
                   ELSE app.currentInitials
        /\ (ret'.op = "submitHighScore" /\ IsPending(app)) =>
               /\ Len(Board') = Len(Board) + 1
               /\ \A j \in 1..Len(Board') :
                      CountScore(Board', Board'[j]) =
                          CountScore(Board, Board'[j]) +
                          (IF SameScore(Board'[j], PendingEntry(app, now')) THEN 1 ELSE 0)
               /\ \E j \in 1..Len(topTen') :
                      /\ SameScore(topTen'[j], PendingEntry(app, now'))
                      /\ Len(topTen'[j].initials) \in 1..InitialsMax
                      /\ UpperCase(topTen'[j].initials)
               /\ ~IsPending(app')
        /\ ~IsPending(app) =>
               /\ submitHighScore(app, localStorage, now').app = app
               /\ submitHighScore(app, localStorage, now').ls = localStorage
               /\ ~submitHighScore(app, localStorage, now').added
      ]_vars

\* a score with one typed initial was submitted to a full board: the entry
\* leads topTen and the tenth entry has moved to historical
C25_Witness ==
    /\ ret.op = "submitHighScore"
    /\ ret.added
    /\ ~IsPending(app)
    /\ Len(topTen) = TopTenSize
    /\ Len(historical) = 1
    /\ topTen[1].timestamp = now
    /\ topTen[1].initials = <<"A">>

\* the run started last has completed
RunCompleted == app.sessionStartTime # null /\ app.completions >= 1

\* C26: completion is terminal for a run: once the run has completed, no
\* handleNext or handleBack changes the index, the session log or the
\* pending score until the next start, so that at most one session is
\* recorded between two starts, the celebration on the practice screen
\* after submitHighScore included.
C26_CompletionTerminal ==
    [][ (RunCompleted /\ ret'.op \in {"handleNext", "handleBack"}) =>
            /\ app'.currentWordIndex = app.currentWordIndex
            /\ sessions' = sessions
            /\ app'.pendingScore = app.pendingScore
      ]_vars

\* C27: with an empty word list nothing fails: every start enters its
\* screen with index 0, and every accepted handleNext of the started run,
\* the first one included, completes the run at once without changing the
\* index and records one session with wordsCount = 0.
C27_EmptyListCompletesAtOnce ==
    [][ (app.words = <<>>) =>
            /\ IsStart(ret'.op) => StartEffect
            /\ (ret'.op = "handleNext" /\ ret'.accepted /\ app.sessionStartTime # null) =>
                   /\ ret'.completion
                   /\ ret'.recorded
                   /\ app'.currentWordIndex = app.currentWordIndex
                   /\ app'.currentWordIndex = 0
                   /\ Len(sessions') = Len(sessions) + 1
                   /\ Last(sessions').wordsCount = 0
      ]_vars

\* the first accepted handleNext of a run on the empty list has completed it
C27_Witness ==
    /\ app.words = <<>>
    /\ ret.op = "handleNext"
    /\ ret.completion
    /\ ret.recorded
    /\ app.advances = 1
    /\ app.currentWordIndex = 0
    /\ Last(sessions).wordsCount = 0

\* C28: initRaceMode fixes the reference times: best is the time of the
\* first topTen entry and recent the time of the last one, 300 and 600 on an
\* empty topTen; best <= recent always; and no step but the start of a race
\* changes them, whatever is added to the leaderboard meanwhile.
C28_ReferencesFixedAtRaceStart ==
    [][ /\ app.raceData.bestTime <= app.raceData.recentTime
        /\ app'.raceData.bestTime <= app'.raceData.recentTime
        /\ (ret'.op = "onRace") =>
               /\ app'.raceData.bestTime =
                      (IF topTen # <<>> THEN topTen[1].time ELSE 300)
               /\ app'.raceData.recentTime =
                      (IF topTen # <<>> THEN topTen[Len(topTen)].time ELSE 600)
               /\ topTen' = topTen
        /\ (ret'.op # "onRace") => app'.raceData = app.raceData
      ]_vars

\* the score of a race was entered in front of the entry the race took its
\* reference times from
C28_Witness ==
    /\ ret.op = "submitHighScore"
    /\ ret.added
    /\ app.sessionStartTime # null
    /\ app.raceData.currentStartTime = app.sessionStartTime
    /\ app.raceData.bestTime = 1
    /\ app.raceData.recentTime = 1
    /\ topTen[1].time = 0

----------------------------------------------------------------------------
(* Properties of the race projection, checked under SpecRace               *)

\* the number x is the quotient n / d, for d > 0
IsQuotient(x, n, d) == x.den > 0 /\ x.num * d = n * x.den

\* the number x is min(n / d, 1), for d > 0
IsCappedQuotient(x, n, d) == IF n >= d THEN x = One ELSE IsQuotient(x, n, d)

\* milliseconds since the race started
Elapsed == now - app.raceData.currentStartTime

\* C29: the projection computes the player's progress as currentWordIndex /
\* totalWords, from the index only, and the progress of each reference racer
\* as min(elapsed / reference time, 1), from the elapsed time only; with
\* bestTime = 100, totalWords = 10, 50 s elapsed and index 5 both the best
\* racer's and the player's progress are 0.5.
C29_Projection ==
    (ret.op = "updateRacePositions") =>
        /\ (app.raceData.totalWords > 0) =>
               IsQuotient(app.racers.current, app.currentWordIndex,
                          app.raceData.totalWords)
        /\ (app.raceData.bestTime > 0) =>
               IsCappedQuotient(app.racers.best, Elapsed, 1000 * app.raceData.bestTime)
        /\ (app.raceData.recentTime > 0) =>
               IsCappedQuotient(app.racers.recent, Elapsed,
                                1000 * app.raceData.recentTime)
        /\ (/\ app.raceData.bestTime = 100 /\ app.raceData.totalWords = 10
            /\ Elapsed = 50000 /\ app.currentWordIndex = 5) =>
               /\ app.racers.best = [num |-> 1, den |-> 2]
               /\ app.racers.current = [num |-> 1, den |-> 2]

\* the projection of the example has been computed
C29_Witness ==
    /\ ret.op = "updateRacePositions"
    /\ app.raceData.bestTime = 100
    /\ app.raceData.totalWords = 10
    /\ Elapsed = 50000
    /\ app.currentWordIndex = 5
    /\ app.racers.best = [num |-> 1, den |-> 2]
    /\ app.racers.current = [num |-> 1, den |-> 2]

----------------------------------------------------------------------------
(* Properties of the race on short word lists, checked under SpecShort     *)

\* x is a number of the interval [0, 1]
InUnit(x) == x.den > 0 /\ 0 <= x.num /\ x.num <= x.den

\* C30: in every state of a race the progress of the player and of the two
\* reference racers lies in [0, 1], also when a reference time taken from
\* the leaderboard is 0 s and when totalWords = 0, where the player's
\* progress is 1.
C30_ProgressInUnitInterval ==
    (app.currentScreen = "race") =>
        /\ InUnit(app.racers.current)
        /\ InUnit(app.racers.best)
        /\ InUnit(app.racers.recent)
        /\ (app.raceData.totalWords = 0) => app.racers.current = One


----------------------------------------------------------------------------
(* Properties of the application across runs                               *)

\* the run that completes in this step is a new best: no best time before
\* it was recorded, or a duration below that best time
NewBest == stats.bestTime = null \/ Last(sessions').duration < stats.bestTime

\* C31: a run that is a new best always qualifies for the leaderboard: no
\* completion has newBest true while isTopTenScore(duration) is false.
C31_NewBestQualifies ==
    [][ (IsCompletion /\ ret'.recorded /\ NewBest) => Qualifies ]_vars

\* a run has been started and has not completed yet
RunInProgress ==
    /\ OnRunScreen(app)
    /\ app.sessionStartTime # null
    /\ app.completions = 0

\* C32: a timer left in flight by a finished run (the delayed celebration
\* and the screen change after it) never affects a later run: from a start
\* on, the screen stays practice or race until the completion of that run.
C32_TimersLeaveLaterRunAlone ==
    [][ (RunInProgress /\ ~(ret'.op = "handleNext" /\ ret'.completion)) =>
            OnRunScreen(app') ]_vars

\* C33: after submitHighScore has entered a pending score, the application
\* eventually shows highScoreView, when the celebration has run, whatever
\* keys are pressed in between (timers that are due do fire).
C33_SubmitLeadsToView ==
    (ret.op = "submitHighScore" /\ ret.added) ~> (app.currentScreen = "highScoreView")

\* the celebration of a submitted score has ended on highScoreView after a
\* key press in between had completed the run once more
C33_Witness ==
    /\ ret.op = "timer"
    /\ ret.kind = "celebrationEnd"
    /\ app.currentScreen = "highScoreView"
    /\ pushed >= 1
    /\ Len(sessions) >= 2

\* C34: the sessionIds of the session log are pairwise distinct in every
\* state the application reaches.
C34_SessionIdsDistinct ==
    LET log == sessions
    IN  \A i \in 1..Len(log) : \A j \in 1..Len(log) :
            log[i].sessionId = log[j].sessionId => i = j

\* two sessions were recorded as close to each other as the cooldown allows
C34_Witness ==
    /\ ret.op = "handleNext"
    /\ ret.recorded
    /\ Len(sessions) >= 2
    /\ sessions[Len(sessions)].sessionId =
           sessions[Len(sessions) - 1].sessionId + BUTTON_COOLDOWN

\* the other of the two modes
OtherMode(screen) == IF screen = "race" THEN "practice" ELSE "race"

\* the same screen, the two run screens taken as one
SameScreen(p, r) == p = r \/ (p \in {"practice", "race"} /\ r \in {"practice", "race"})

\* C35: completing a run in race mode has the same effect on the stored
\* document and on the next screen as completing it in practice mode: the
\* same session recorded, the same qualification, the same pending score or
\* result screen.  Every completion step is compared with what handleNext
\* does to the same state in the other mode.
C35_RaceCompletesAsPractice ==
    [][ (ret'.op = "handleNext" /\ ret'.completion) =>
            \E other \in {handleNext(ShowScreen(app, OtherMode(app.currentScreen)),
                                     localStorage, now')} :
                /\ other.completion
                /\ other.recorded = ret'.recorded
                /\ other.ls = localStorage'
                /\ other.app.pendingScore = app'.pendingScore
                /\ other.app.timers = app'.timers
                /\ SameScreen(other.app.currentScreen, app'.currentScreen)
      ]_vars

\* a race has completed: its session is recorded and its score is pending
C35_Witness ==
    /\ ret.op = "handleNext"
    /\ ret.recorded
    /\ app.sessionStartTime # null
    /\ app.raceData.currentStartTime = app.sessionStartTime
    /\ app.currentScreen = "highScoreInput"
    /\ IsPending(app)
    /\ app.pendingScore.time = Last(sessions).duration

\* C36: in every reachable state a score is pending if and only if the
\* current screen is highScoreInput.
C36_PendingIffInputScreen == IsPending(app) <=> app.currentScreen = "highScoreInput"

\* C37: whenever no score is pending and stats.bestTime is not null, topTen
\* is non-empty and its first entry's time equals stats.bestTime.
C37_BestTimeLeadsBoard ==
    (~IsPending(app) /\ stats.bestTime # null) =>
        (topTen # <<>> /\ topTen[1].time = stats.bestTime)

\* the logged sessions of completed runs
CompletedRuns(log) == {i \in 1..Len(log) : log[i].completed}
CompletedIndexes == CompletedRuns(sessions)

\* the entry carries the duration and the word count of a completed run of the log
FromLoggedRun(entry, log) ==
    \E i \in CompletedRuns(log) :
        /\ log[i].duration = entry.time
        /\ log[i].wordsCount = entry.wordsCount

\* C38: every leaderboard entry comes from a distinct completed run: the
\* entries of topTen and historical together are at most as many as the logged
\* sessions with completed = true, and each entry's time and wordsCount are the
\* duration and wordsCount of some logged session.
C38_EntriesFromCompletedRuns ==
    LET log == sessions
        top == topTen
        old == historical
    IN  /\ Len(top) + Len(old) <= Cardinality(CompletedRuns(log))
        /\ \A k \in 1..Len(top) : FromLoggedRun(top[k], log)
        /\ \A k \in 1..Len(old) : FromLoggedRun(old[k], log)

\* two runs were completed and both are on the leaderboard: as many entries
\* as completed sessions
C38_Witness ==
    /\ ret.op = "submitHighScore"
    /\ ret.added
    /\ Len(topTen) >= 2
    /\ Len(topTen) + Len(historical) = Cardinality(CompletedIndexes)

====
